---- MODULE Spec2Model ----
\* A model of the sequential pipeline engine (pipeline_engine.core): the
\* Pipeline orchestrator (run, retry_step, _execute_step), the retry driver
\* (retry.retry_step, RetryConfig.should_retry), the Context, the
\* StepState/PipelineState records and the in-memory state repository.
\*
\* Python dicts are functions whose DOMAIN is the set of keys present.
\* Exceptions are records [kind, step, cause, attempts]; str(e) of an
\* exception is modelled by the record itself (the message is built from
\* exactly these parts).  Timestamps are "None" or "time".
EXTENDS Integers, Sequences, FiniteSets, TLC

\* ---------------------------------------------------------------- bounds

MaxSteps == 2        \* longest declared step list
MaxCalls == 2        \* caller operations (run / retry_step) in one behaviour
MaxRetries == 2      \* largest max_attempts a caller passes explicitly
MaxRepoCalls == 3    \* calls made on a repository directly

AllNames == <<"s1", "s2", "s3", "s4">>
Unknown == "nonexistent"
InitialContexts == { <<>>, [k \in {"a", "b"} |-> 1] }
\* what the i-th declared step may return: nothing, or its own mapping
StepMappings ==
    << [k \in {"a"} |-> 2], [k \in {"a", "b"} |-> 3], [k \in {"b"} |-> 4],
       [k \in {"a"} |-> 5] >>
Errors == {"ValueError", "TypeError"}
\* what a step of the pipeline raises (the orchestrator catches Exception and
\* treats every kind alike; only a retry_on predicate tells kinds apart)
Failures == {"ValueError"}
Delays == {1, 3}
Multipliers == {1, 2, 3}
PipelineId == "p1"
\* the identifiers and the PipelineState objects handed to a repository
RepoIds == {"p1", "p2"}
RepoStates == {"state1", "state2"}
\* what a caller writes out of band through get_context().set
SetKeys == {"a"}
SetValues == {9}

\* ------------------------------------------------------- program constants

DefaultMaxAttempts == 3     \* RetryConfig(max_attempts=3)
DefaultDelay == 1           \* delay: float = 1.0
DefaultMultiplier == 2      \* backoff_multiplier: float = 2.0
FlakyMaxAttempts == 5       \* the integration test's RetryConfig(max_attempts=5)

VARIABLES
    steps,        \* Pipeline.steps: the declared step names, in order
    state,        \* Pipeline._state: the live PipelineState
    context,      \* Pipeline._context._data
    storage,      \* MemoryStateRepository._storage: id -> the object saved
    saves,        \* the states handed to save() during the current operation
    pc,           \* where the calling thread is
    cur,          \* run: index of the step the for loop is at
    target,       \* Pipeline.retry_step: the step being re-executed
    calls,        \* number of caller operations started so far
    op,           \* the caller operation in progress or last finished
    result,       \* what the last caller operation returned or raised
    cfg,          \* retry driver: the RetryConfig in use
    attempt,      \* retry driver: the attempt parameter (0-indexed)
    outcome,      \* how the last execute / retry driver call ended
    invoked,      \* step name -> execute() calls during the current operation
    sleeps,       \* time.sleep() arguments during the current operation
    initial,      \* the initial_context of the current run
    outs,         \* the mappings returned by the steps of the current run
    decision,     \* the last should_retry evaluation: inputs and answer
    executions,   \* step name -> execute() calls since the pipeline was built
    aliased,      \* whether Context._data is the caller's own dict object
    caller_data,  \* the dict the caller passed to run, as it is now
    repo_calls,   \* the calls made on the repository directly, with answers
    pipelines,    \* pipelines sharing the repository: id -> state changes
                  \* made so far, and how many of them the last save had seen
    inspector,    \* the PipelineInspector the caller holds
    answer        \* the last inspector query since the last operation

vars == <<steps, state, context, storage, saves, pc, cur, target, calls,
          op, result, cfg, attempt, outcome, invoked, sleeps, initial, outs,
          decision, executions, aliased, caller_data, repo_calls, pipelines,
          inspector, answer>>

\* ---------------------------------------------------------------- errors

NoError == [kind |-> "None", step |-> "", cause |-> "", attempts |-> 0]

\* An exception raised by a step's execute: str(e) is its message.
Raised(e) == [kind |-> e, step |-> "", cause |-> e, attempts |-> 0]

\* RetryExhaustedError(step_name, attempts)
RetryExhaustedError(name, n) ==
    [kind |-> "RetryExhaustedError", step |-> name, cause |-> "", attempts |-> n]

\* StepError(step.name, str(e), e): "Step '<name>' failed: <str(e)>"
StepError(name, e) ==
    [kind |-> "StepError", step |-> name, cause |-> e.kind, attempts |-> e.attempts]

\* ---------------------------------------------------------------- Context

\* Context.__init__: a copy of initial_data, or {} when it is falsy
ContextInit(initial_data) == initial_data

\* a Context that keeps the dict it was given (no copy): run passes
\* initial_context or {}, so a non-empty argument would be shared
ContextAliasesArgument(initial_data) == initial_data # <<>>

\* Context.__init__: _data is initial_data.copy(), or a new {}: never the
\* caller's own object
ContextAliases(initial_data) == FALSE

\* a write to Context._data is a write to the caller's dict exactly when the
\* two are the same object
written_through(shared, caller, data) == IF shared THEN data ELSE caller

\* a merge in which the keys already present win
update_keep_existing(d, data) ==
    [k \in DOMAIN d \cup DOMAIN data |-> IF k \in DOMAIN d THEN d[k] ELSE data[k]]

\* Context.update: dict.update, every key of data is written
update(d, data) ==
    [k \in DOMAIN d \cup DOMAIN data |-> IF k \in DOMAIN data THEN data[k] ELSE d[k]]

\* Context.set: self._data[key] = value
set(d, key, value) ==
    [k \in DOMAIN d \cup {key} |-> IF k = key THEN value ELSE d[k]]

\* Context.clear: self._data.clear(), the mapping is emptied in place
clear(d) == <<>>

\* Context.to_dict: a copy of the mapping
to_dict(d) == [k \in DOMAIN d |-> d[k]]

\* a to_dict that returns self._data itself
to_dict_shares(d) == TRUE

\* Context.to_dict, line 28: self._data.copy() is a new dict, never _data
to_dict_aliases(d) == FALSE

\* ------------------------------------------------------------------ state

None == [some |-> FALSE, val |-> <<>>]
Some(d) == [some |-> TRUE, val |-> d]

\* StepState(step_name=...) with the dataclass defaults
StepState(name) ==
    [step_name |-> name, status |-> "pending", input_data |-> None,
     output_data |-> None, error |-> NoError, started_at |-> "None",
     completed_at |-> "None", attempts |-> 0]

\* PipelineState(pipeline_id=...) with the dataclass defaults
PipelineState(id) ==
    [pipeline_id |-> id, status |-> "pending", steps |-> <<>>,
     started_at |-> "None", completed_at |-> "None", error |-> NoError]

\* a store that adds a second record when the name already has one
add_step_state_appends(st, step_state) ==
    LET key == IF step_state.step_name \in DOMAIN st.steps
               THEN "again" ELSE step_state.step_name
    IN [st EXCEPT !.steps =
           [n \in DOMAIN st.steps \cup {key} |->
               IF n = key THEN step_state ELSE st.steps[n]]]

\* PipelineState.add_step_state: self.steps[step_state.step_name] = step_state
add_step_state(st, step_state) ==
    [st EXCEPT !.steps =
        [n \in DOMAIN st.steps \cup {step_state.step_name} |->
            IF n = step_state.step_name THEN step_state ELSE st.steps[n]]]

\* a save that empties the repository first
memory_save_alone(sto, id, obj) == [i \in {id} |-> obj]

\* a save that keeps the record an identifier already has
memory_save_keeps_first(sto, id, obj) ==
    [i \in DOMAIN sto \cup {id} |-> IF i \in DOMAIN sto THEN sto[i] ELSE obj]

\* MemoryStateRepository.save: self._storage[pipeline_id] = state.  The
\* repository keeps the object itself (no copy): obj names the object.
memory_save(sto, id, obj) ==
    [i \in DOMAIN sto \cup {id} |-> IF i = id THEN obj ELSE sto[i]]

\* MemoryStateRepository.exists: pipeline_id in self._storage
exists(sto, id) == id \in DOMAIN sto

\* MemoryStateRepository.load: KeyError when the id is absent, else the
\* object stored
load(sto, id) == IF id \in DOMAIN sto THEN sto[id] ELSE "KeyError"

\* Pipeline._save_state: state_repository.save(self.pipeline_id, self._state).
\* The pipeline's state object is named by the pipeline's id, so what
\* load(id) returns is the live state of that pipeline.
save(sto, id) == memory_save(sto, id, id)

\* ------------------------------------------------------ PipelineInspector

\* an inspector that copies the state it is given
PipelineInspectorFrozen(st, at) ==
    [held |-> TRUE, live |-> FALSE, snapshot |-> st, obtained_at |-> at]

\* PipelineInspector.__init__, lines 10-11: self.pipeline_state = pipeline_state,
\* the object itself; at is the number of caller operations made so far
PipelineInspector(st, at) ==
    [held |-> TRUE, live |-> TRUE, snapshot |-> <<>>, obtained_at |-> at]

\* the PipelineState an inspector reads: the pipeline's live state object
viewed(insp, st) == IF insp.live THEN st ELSE insp.snapshot

\* StepState.to_dict, lines 30-41
step_to_dict(ss) ==
    [step_name |-> ss.step_name, status |-> ss.status,
     input_data |-> ss.input_data, output_data |-> ss.output_data,
     error |-> ss.error, started_at |-> ss.started_at,
     completed_at |-> ss.completed_at, attempts |-> ss.attempts]

\* PipelineState.to_dict, lines 62-71
state_to_dict(st) ==
    [pipeline_id |-> st.pipeline_id, status |-> st.status,
     steps |-> [n \in DOMAIN st.steps |-> step_to_dict(st.steps[n])],
     started_at |-> st.started_at, completed_at |-> st.completed_at,
     error |-> st.error]

\* PipelineState.get_step_state: self.steps.get(step_name); absent is None
get_step_state(st, n) ==
    IF n \in DOMAIN st.steps THEN [some |-> TRUE, val |-> st.steps[n]]
    ELSE [some |-> FALSE, val |-> StepState(n)]

\* the queries of PipelineInspector, lines 13-64; None is None for the
\* mappings, "None" for a status, NoError for an error message
StepQueries ==
    {"get_step_state", "get_step_input", "get_step_output", "get_step_status",
     "get_step_error", "get_step_attempts", "is_step_completed",
     "is_step_failed"}
PipelineQueries ==
    {"get_all_steps", "get_pipeline_status", "get_pipeline_error", "to_dict"}

get_step_status(st, n) ==
    IF get_step_state(st, n).some THEN get_step_state(st, n).val.status
    ELSE "None"

query(st, q, n) ==
    CASE q = "get_step_state" -> get_step_state(st, n)
      [] q = "get_step_input" ->
            IF get_step_state(st, n).some
            THEN get_step_state(st, n).val.input_data ELSE None
      [] q = "get_step_output" ->
            IF get_step_state(st, n).some
            THEN get_step_state(st, n).val.output_data ELSE None
      [] q = "get_step_status" -> get_step_status(st, n)
      [] q = "get_step_error" ->
            IF get_step_state(st, n).some
            THEN get_step_state(st, n).val.error ELSE NoError
      [] q = "get_step_attempts" ->
            IF get_step_state(st, n).some
            THEN get_step_state(st, n).val.attempts ELSE 0
      [] q = "is_step_completed" -> get_step_status(st, n) = "completed"
      [] q = "is_step_failed" -> get_step_status(st, n) = "failed"
      [] q = "get_all_steps" -> [m \in DOMAIN st.steps |-> st.steps[m]]
      [] q = "get_pipeline_status" -> st.status
      [] q = "get_pipeline_error" -> st.error
      [] q = "to_dict" -> state_to_dict(st)

\* a get_all_steps that hands out the state's own mapping
get_all_steps_shares(st) == TRUE

\* get_all_steps, line 52: self.pipeline_state.steps.copy(), a new mapping:
\* what the caller does to it does not reach the state
get_all_steps_aliases(st) == FALSE

\* --------------------------------------------------------- _execute_step

\* a step start that leaves the new record PENDING
begin_step_pending(st, name, ctx) ==
    add_step_state(st,
        [StepState(name) EXCEPT !.started_at = "time",
                                !.input_data = Some(to_dict(ctx))])

\* a step start that keeps the input of the record it replaces
begin_step_keeps_input(st, name, ctx) ==
    add_step_state(st,
        [StepState(name) EXCEPT !.status = "running", !.started_at = "time",
                                !.input_data =
                                    IF name \in DOMAIN st.steps
                                    THEN st.steps[name].input_data
                                    ELSE Some(to_dict(ctx))])

\* a step start that reuses the record of the previous execution of the step
begin_step_reuses_record(st, name, ctx) ==
    add_step_state(st,
        [(IF name \in DOMAIN st.steps THEN st.steps[name] ELSE StepState(name))
            EXCEPT !.status = "running", !.started_at = "time",
                   !.input_data = Some(to_dict(ctx))])

\* _execute_step, lines 67-72: a new StepState, RUNNING, with the context
\* snapshot as input, stored under the step's name
begin_step(st, name, ctx) ==
    add_step_state(st,
        [StepState(name) EXCEPT !.status = "running", !.started_at = "time",
                                !.input_data = Some(to_dict(ctx))])

\* a completion that forgets to record the attempt count
complete_step_without_attempts(st, name, output, attempts) ==
    add_step_state(st,
        [st.steps[name] EXCEPT !.status = "completed",
                               !.output_data = Some(output),
                               !.completed_at = "time"])

\* a completion that overwrites the input snapshot with the output
complete_step_input_overwritten(st, name, output, attempts) ==
    add_step_state(st,
        [st.steps[name] EXCEPT !.attempts = attempts, !.status = "completed",
                               !.output_data = Some(output),
                               !.input_data = Some(output),
                               !.completed_at = "time"])

\* _execute_step, lines 82/85 and 90-92, 103: the same StepState object gets
\* attempts, COMPLETED, the output and an end time
complete_step(st, name, output, attempts) ==
    add_step_state(st,
        [st.steps[name] EXCEPT !.attempts = attempts, !.status = "completed",
                               !.output_data = Some(output),
                               !.completed_at = "time"])

\* a step failure that also marks the pipeline failed
fail_step_and_pipeline(st, name, e) ==
    [add_step_state(st,
        [st.steps[name] EXCEPT !.status = "failed", !.error = e,
                               !.completed_at = "time"])
     EXCEPT !.status = "failed", !.error = e]

\* _execute_step, lines 94-98: the same StepState object gets FAILED, str(e)
\* and an end time; attempts is not assigned on this path
fail_step(st, name, e) ==
    add_step_state(st,
        [st.steps[name] EXCEPT !.status = "failed", !.error = e,
                               !.completed_at = "time"])

\* a step whose returned mapping is never merged
merge_output_skipped(ctx, output) == ctx

\* a merge that replaces the Context by the output of the step
merge_output_replaces(ctx, output) == IF output # <<>> THEN output ELSE ctx

\* _execute_step, lines 87-88: if output: self._context.update(output)
merge_output(ctx, output) == IF output # <<>> THEN update(ctx, output) ELSE ctx

\* ------------------------------------------------------------ RetryConfig

RetryConfig(max_attempts, delay, backoff_multiplier, retry_on) ==
    [max_attempts |-> max_attempts, delay |-> delay,
     backoff_multiplier |-> backoff_multiplier, retry_on |-> retry_on]

\* retry_on is a predicate over the exception: the set of kinds it accepts.
\* The default (lambda e: True) accepts every kind.
Predicates == SUBSET Errors

\* a limit test that allows one attempt too many
should_retry_off_by_one(c, e, att) ==
    IF att > c.max_attempts THEN FALSE ELSE e \in c.retry_on

\* a policy that never consults its predicate
should_retry_ignores_predicate(c, e, att) ==
    IF att >= c.max_attempts THEN FALSE ELSE TRUE

\* RetryConfig.should_retry
should_retry(c, e, att) ==
    IF att >= c.max_attempts THEN FALSE ELSE e \in c.retry_on

\* a backoff whose exponent is the next attempt's index
backoff_delay_next_exponent(c, att) == c.delay * (c.backoff_multiplier ^ (att + 1))

\* retry_step, line 56: delay * (backoff_multiplier ** attempt)
backoff_delay(c, att) == c.delay * (c.backoff_multiplier ^ att)

\* the configurations a caller of Pipeline.retry_step passes
PipelineConfigs ==
    { RetryConfig(m, DefaultDelay, DefaultMultiplier, Errors) : m \in 0..MaxRetries }
    \cup { RetryConfig(MaxRetries, DefaultDelay, DefaultMultiplier, {"TypeError"}) }

\* the configuration of the integration test of a flaky step:
\* RetryConfig(max_attempts=5, ...), every exception retried
FlakyConfig == RetryConfig(FlakyMaxAttempts, DefaultDelay, DefaultMultiplier, Errors)

\* the configurations the retry driver is called with directly
DriverConfigs ==
    { RetryConfig(m, d, b, p) :
        m \in 0..MaxRetries, d \in Delays, b \in Multipliers, p \in Predicates }

\* the mappings the step called name may return
Outputs(name) ==
    { <<>> } \cup { StepMappings[i] : i \in { j \in 1..Len(AllNames) : AllNames[j] = name } }

NoCall == [name |-> "none", step_name |-> ""]
NoInspector == [held |-> FALSE, live |-> TRUE, snapshot |-> <<>>, obtained_at |-> 0]
NoAnswer == [query |-> "none", step_name |-> "", value |-> "", edits |-> 0]
\* a pipeline that has changed nothing and saved nothing (saved = -1)
NoPipelines == [id \in RepoIds |-> [version |-> 0, saved |-> -1]]
NoDecision == [error |-> "", attempt |-> 0, answer |-> FALSE, asked |-> FALSE]
NoOutcome == [kind |-> "none", value |-> <<>>, error |-> NoError, attempts |-> 0]

\* ------------------------------------------------------------------- Init

NoInvocations == [n \in {steps[i] : i \in 1..Len(steps)} |-> 0]

Init ==
    /\ steps \in { SubSeq(AllNames, 1, n) : n \in 1..MaxSteps }
    /\ state = PipelineState(PipelineId)
    /\ context = ContextInit(<<>>)
    /\ storage = <<>>
    /\ saves = <<>>
    /\ pc = "idle"
    /\ cur = 0
    /\ target = ""
    /\ calls = 0
    /\ op = NoCall
    /\ result = "none"
    /\ cfg = RetryConfig(DefaultMaxAttempts, DefaultDelay, DefaultMultiplier, Errors)
    /\ attempt = 0
    /\ outcome = NoOutcome
    /\ invoked = NoInvocations
    /\ sleeps = <<>>
    /\ initial = <<>>
    /\ outs = <<>>
    /\ decision = NoDecision
    /\ executions = NoInvocations
    /\ aliased = FALSE
    /\ caller_data = <<>>
    /\ repo_calls = <<>>
    /\ pipelines = NoPipelines
    /\ inspector = NoInspector
    /\ answer = NoAnswer

\* ---------------------------------------------------------- Pipeline.run

\* a run that merges its initial data into the Context it finds
RunStartKeepsContext(initial_context) ==
    /\ pc = "idle"
    /\ calls < MaxCalls
    /\ calls' = calls + 1
    /\ op' = [name |-> "run", step_name |-> ""]
    /\ context' = update(context, ContextInit(initial_context))
    /\ aliased' = ContextAliases(initial_context)
    /\ caller_data' = initial_context
    /\ state' = [state EXCEPT !.status = "running", !.started_at = "time"]
    /\ storage' = save(storage, PipelineId)
    /\ saves' = <<state'>>
    /\ pc' = "run_loop"
    /\ cur' = 1
    /\ result' = "none"
    /\ answer' = NoAnswer
    /\ invoked' = NoInvocations
    /\ sleeps' = <<>>
    /\ initial' = initial_context
    /\ outs' = <<>>
    /\ outcome' = NoOutcome
    /\ decision' = NoDecision
    /\ UNCHANGED <<steps, target, cfg, attempt, executions, repo_calls,
                   pipelines, inspector>>

\* run, lines 43-47: fresh Context, RUNNING, start time, save
RunStart(initial_context) ==
    /\ pc = "idle"
    /\ calls < MaxCalls
    /\ calls' = calls + 1
    /\ op' = [name |-> "run", step_name |-> ""]
    /\ context' = ContextInit(initial_context)
    /\ aliased' = ContextAliases(initial_context)
    /\ caller_data' = initial_context
    /\ state' = [state EXCEPT !.status = "running", !.started_at = "time"]
    /\ storage' = save(storage, PipelineId)
    /\ saves' = <<state'>>
    /\ pc' = "run_loop"
    /\ cur' = 1
    /\ result' = "none"
    /\ answer' = NoAnswer
    /\ invoked' = NoInvocations
    /\ sleeps' = <<>>
    /\ initial' = initial_context
    /\ outs' = <<>>
    /\ outcome' = NoOutcome
    /\ decision' = NoDecision
    /\ UNCHANGED <<steps, target, cfg, attempt, executions, repo_calls,
                   pipelines, inspector>>

\* a step start that is not persisted
RunStepBeginUnsaved ==
    /\ pc = "run_loop"
    /\ cur <= Len(steps)
    /\ state' = begin_step(state, steps[cur], context)
    /\ pc' = "run_exec"
    /\ UNCHANGED <<steps, context, storage, saves, cur, target, calls, op,
                   result, cfg, attempt, outcome, invoked, sleeps, initial,
                   outs, decision, executions, aliased, caller_data,
                   repo_calls, pipelines, inspector, answer>>

\* run line 51 -> _execute_step lines 67-73: the step's StepState is stored
\* RUNNING and saved before execute is invoked
RunStepBegin ==
    /\ pc = "run_loop"
    /\ cur <= Len(steps)
    /\ state' = begin_step(state, steps[cur], context)
    /\ storage' = save(storage, PipelineId)
    /\ saves' = Append(saves, state')
    /\ pc' = "run_exec"
    /\ UNCHANGED <<steps, context, cur, target, calls, op, result, cfg,
                   attempt, outcome, invoked, sleeps, initial, outs,
                   decision, executions, aliased, caller_data, repo_calls,
                   pipelines, inspector, answer>>

\* _execute_step lines 84-92, 103-104 (no retry_config): execute returned
RunStepSucceed(output) ==
    /\ pc = "run_exec"
    /\ invoked' = [invoked EXCEPT ![steps[cur]] = @ + 1]
    /\ executions' = [executions EXCEPT ![steps[cur]] = @ + 1]
    /\ context' = merge_output(context, output)
    /\ caller_data' = written_through(aliased, caller_data, context')
    /\ state' = complete_step(state, steps[cur], output, 1)
    /\ storage' = save(storage, PipelineId)
    /\ saves' = Append(saves, state')
    /\ outs' = Append(outs, output)
    /\ outcome' = [NoOutcome EXCEPT !.kind = "returned", !.value = output,
                                    !.attempts = 1]
    /\ cur' = cur + 1
    /\ pc' = "run_loop"
    /\ UNCHANGED <<steps, target, calls, op, result, cfg, attempt, sleeps,
                   initial, decision, aliased, repo_calls, pipelines,
                   inspector, answer>>

\* a run that sleeps and invokes the step again after it raised
RunStepFailThenRetry(e) ==
    /\ pc = "run_exec"
    /\ invoked' = [invoked EXCEPT ![steps[cur]] = @ + 1]
    /\ executions' = [executions EXCEPT ![steps[cur]] = @ + 1]
    /\ sleeps' = Append(sleeps, DefaultDelay)
    /\ UNCHANGED <<steps, state, context, storage, saves, pc, cur, target,
                   calls, op, result, cfg, attempt, outcome, initial, outs,
                   decision, aliased, caller_data, repo_calls, pipelines,
                   inspector, answer>>

\* a failure handler that merges the mapping of the step that raised
RunStepFailMerges(e) ==
    /\ pc = "run_exec"
    /\ invoked' = [invoked EXCEPT ![steps[cur]] = @ + 1]
    /\ executions' = [executions EXCEPT ![steps[cur]] = @ + 1]
    /\ context' = update(context, StepMappings[cur])
    /\ state' = fail_step(state, steps[cur], Raised(e))
    /\ storage' = save(storage, PipelineId)
    /\ saves' = Append(saves, state')
    /\ outcome' = [NoOutcome EXCEPT !.kind = "raised",
                                !.error = StepError(steps[cur], Raised(e))]
    /\ pc' = "run_except"
    /\ UNCHANGED <<steps, cur, target, calls, op, result, cfg, attempt,
                   sleeps, initial, outs, decision, aliased, caller_data,
                   repo_calls, pipelines, inspector, answer>>

\* _execute_step lines 84, 94-101 (no retry_config): execute raised e; the
\* StepState is stored FAILED and saved, StepError propagates to run
RunStepFail(e) ==
    /\ pc = "run_exec"
    /\ invoked' = [invoked EXCEPT ![steps[cur]] = @ + 1]
    /\ executions' = [executions EXCEPT ![steps[cur]] = @ + 1]
    /\ state' = fail_step(state, steps[cur], Raised(e))
    /\ storage' = save(storage, PipelineId)
    /\ saves' = Append(saves, state')
    /\ outcome' = [NoOutcome EXCEPT !.kind = "raised",
                                !.error = StepError(steps[cur], Raised(e))]
    /\ pc' = "run_except"
    /\ UNCHANGED <<steps, context, cur, target, calls, op, result, cfg,
                   attempt, sleeps, initial, outs, decision, aliased,
                   caller_data, repo_calls, pipelines, inspector, answer>>

\* a failure handler that forgets the error message
fail_pipeline_without_error(st, e) ==
    [st EXCEPT !.status = "failed", !.completed_at = "time"]

\* a failure handler that records the error and leaves the status RUNNING
fail_pipeline_still_running(st, e) ==
    [st EXCEPT !.error = e, !.completed_at = "time"]

\* run, lines 55-60: FAILED, error = str(e), end time, save, raise
\* PipelineExecutionError
fail_pipeline(st, e) ==
    [st EXCEPT !.status = "failed", !.error = e, !.completed_at = "time"]

RunExcept ==
    /\ pc = "run_except"
    /\ state' = fail_pipeline(state, outcome.error)
    /\ storage' = save(storage, PipelineId)
    /\ saves' = Append(saves, state')
    /\ result' = "PipelineExecutionError"
    /\ pc' = "idle"
    /\ UNCHANGED <<steps, context, cur, target, calls, op, cfg, attempt,
                   outcome, invoked, sleeps, initial, outs, decision,
                   executions, aliased, caller_data, repo_calls, pipelines,
                   inspector, answer>>

\* run, lines 53-54, 62-63: every step returned; COMPLETED, end time, save,
\* return an inspector
finish_pipeline(st) ==
    [st EXCEPT !.status = "completed", !.completed_at = "time"]

RunFinish ==
    /\ pc = "run_loop"
    /\ cur > Len(steps)
    /\ state' = finish_pipeline(state)
    /\ storage' = save(storage, PipelineId)
    /\ saves' = Append(saves, state')
    /\ result' = "PipelineInspector"
    /\ inspector' = IF inspector.held THEN inspector
                    ELSE PipelineInspector(state', calls)
    /\ pc' = "idle"
    /\ UNCHANGED <<steps, context, cur, target, calls, op, cfg, attempt,
                   outcome, invoked, sleeps, initial, outs, decision,
                   executions, aliased, caller_data, repo_calls, pipelines,
                   answer>>

\* --------------------------------------------------- Pipeline.retry_step

\* a lookup that falls back to the first declared step
find_step_or_first(name) ==
    IF \E i \in 1..Len(steps) : steps[i] = name
    THEN CHOOSE i \in 1..Len(steps) :
            steps[i] = name /\ \A j \in 1..(i - 1) : steps[j] # name
    ELSE 1

\* retry_step, line 114: next((s for s in self.steps if s.name == step_name),
\* None): the index of the first declared step of that name, 0 for None
find_step(name) ==
    IF \E i \in 1..Len(steps) : steps[i] = name
    THEN CHOOSE i \in 1..Len(steps) :
            steps[i] = name /\ \A j \in 1..(i - 1) : steps[j] # name
    ELSE 0

\* retry_step, lines 118-119: the default policy when none is given
default_config(rc) ==
    IF rc.some THEN rc.val
    ELSE RetryConfig(DefaultMaxAttempts, DefaultDelay, DefaultMultiplier, Errors)

\* retry_step, lines 114-116: no such step, ValueError
RetryStepNotFound(name) ==
    /\ pc = "idle"
    /\ calls < MaxCalls
    /\ find_step(name) = 0
    /\ calls' = calls + 1
    /\ op' = [name |-> "retry_step", step_name |-> name]
    /\ result' = "ValueError"
    /\ answer' = NoAnswer
    /\ saves' = <<>>
    /\ invoked' = NoInvocations
    /\ sleeps' = <<>>
    /\ outcome' = NoOutcome
    /\ decision' = NoDecision
    /\ UNCHANGED <<steps, state, context, storage, pc, cur, target, cfg,
                   attempt, initial, outs, executions, aliased, caller_data,
                   repo_calls, pipelines, inspector>>

\* a retry_step that refuses a step whose StepState is not FAILED
RetryStepBeginOnlyFailed(name, rc) ==
    /\ pc = "idle"
    /\ calls < MaxCalls
    /\ find_step(name) # 0
    /\ calls' = calls + 1
    /\ op' = [name |-> "retry_step", step_name |-> name]
    /\ answer' = NoAnswer
    /\ invoked' = NoInvocations
    /\ sleeps' = <<>>
    /\ outcome' = NoOutcome
    /\ decision' = NoDecision
    /\ IF name \in DOMAIN state.steps /\ state.steps[name].status = "failed"
       THEN /\ target' = steps[find_step(name)]
            /\ cfg' = default_config(rc)
            /\ attempt' = 0
            /\ state' = begin_step(state, steps[find_step(name)], context)
            /\ storage' = save(storage, PipelineId)
            /\ saves' = <<state'>>
            /\ result' = "none"
            /\ pc' = "driver"
       ELSE /\ result' = "ValueError"
            /\ saves' = <<>>
            /\ UNCHANGED <<state, storage, pc, target, cfg, attempt>>
    /\ UNCHANGED <<steps, context, cur, initial, outs, executions, aliased,
                   caller_data, repo_calls, pipelines, inspector>>

\* retry_step, lines 114-121 -> _execute_step lines 67-73 and 79-81: the
\* step's StepState is replaced by a RUNNING one and saved, then the retry
\* driver is entered with attempt = 0
RetryStepBegin(name, rc) ==
    /\ pc = "idle"
    /\ calls < MaxCalls
    /\ find_step(name) # 0
    /\ calls' = calls + 1
    /\ op' = [name |-> "retry_step", step_name |-> name]
    /\ target' = steps[find_step(name)]
    /\ cfg' = default_config(rc)
    /\ attempt' = 0
    /\ state' = begin_step(state, steps[find_step(name)], context)
    /\ storage' = save(storage, PipelineId)
    /\ saves' = <<state'>>
    /\ result' = "none"
    /\ answer' = NoAnswer
    /\ invoked' = NoInvocations
    /\ sleeps' = <<>>
    /\ outcome' = NoOutcome
    /\ decision' = NoDecision
    /\ pc' = "driver"
    /\ UNCHANGED <<steps, context, cur, initial, outs, executions, aliased,
                   caller_data, repo_calls, pipelines, inspector>>

\* ------------------------------------------- Pipeline.get_context().set

\* get_context (lines 127-129) hands out the live Context; the caller writes
\* one key between two operations of the pipeline (one write per pause: a
\* second write before the next operation is not modelled)
ContextSet(key, value) ==
    /\ pc = "idle"
    /\ calls < MaxCalls
    /\ op.name # "set"
    /\ op' = [name |-> "set", step_name |-> ""]
    /\ context' = set(context, key, value)
    /\ caller_data' = written_through(aliased, caller_data, context')
    /\ result' = "none"
    /\ answer' = NoAnswer
    /\ saves' = <<>>
    /\ invoked' = NoInvocations
    /\ sleeps' = <<>>
    /\ outcome' = NoOutcome
    /\ decision' = NoDecision
    /\ UNCHANGED <<steps, state, storage, pc, cur, target, calls, cfg,
                   attempt, initial, outs, executions, aliased, repo_calls,
                   pipelines, inspector>>

\* ----------------------------------------- Pipeline.get_context().clear

\* the caller empties the live Context between two operations of the
\* pipeline (one clear per pause)
ContextClear ==
    /\ pc = "idle"
    /\ calls < MaxCalls
    /\ op.name # "clear"
    /\ op' = [name |-> "clear", step_name |-> ""]
    /\ context' = clear(context)
    /\ caller_data' = written_through(aliased, caller_data, context')
    /\ result' = "none"
    /\ answer' = NoAnswer
    /\ saves' = <<>>
    /\ invoked' = NoInvocations
    /\ sleeps' = <<>>
    /\ outcome' = NoOutcome
    /\ decision' = NoDecision
    /\ UNCHANGED <<steps, state, storage, pc, cur, target, calls, cfg,
                   attempt, initial, outs, executions, aliased, repo_calls,
                   pipelines, inspector>>

\* ------------------------------------------------------ retry.retry_step

\* a driver that reports the index of the attempt instead of the count
DriverReturnAttemptIndex(output) ==
    /\ pc = "driver"
    /\ invoked' = [invoked EXCEPT ![target] = @ + 1]
    /\ executions' = [executions EXCEPT ![target] = @ + 1]
    /\ outcome' = [NoOutcome EXCEPT !.kind = "returned", !.value = output,
                                !.attempts = attempt]
    /\ pc' = "driver_done"
    /\ UNCHANGED <<steps, state, context, storage, saves, cur, target, calls,
                   op, result, cfg, attempt, sleeps, initial, outs, decision,
                   aliased, caller_data, repo_calls, pipelines, inspector,
                   answer>>

\* retry_step (driver), lines 51-53: execute_fn returned; the driver returns
\* (result, attempt + 1)
DriverReturn(output) ==
    /\ pc = "driver"
    /\ invoked' = [invoked EXCEPT ![target] = @ + 1]
    /\ executions' = [executions EXCEPT ![target] = @ + 1]
    /\ outcome' = [NoOutcome EXCEPT !.kind = "returned", !.value = output,
                                !.attempts = attempt + 1]
    /\ pc' = "driver_done"
    /\ UNCHANGED <<steps, state, context, storage, saves, cur, target, calls,
                   op, result, cfg, attempt, sleeps, initial, outs, decision,
                   aliased, caller_data, repo_calls, pipelines, inspector,
                   answer>>

\* a driver that recurses without sleeping
DriverRetryWithoutSleep(e) ==
    /\ pc = "driver"
    /\ should_retry(cfg, e, attempt)
    /\ invoked' = [invoked EXCEPT ![target] = @ + 1]
    /\ executions' = [executions EXCEPT ![target] = @ + 1]
    /\ decision' = [error |-> e, attempt |-> attempt,
                    answer |-> should_retry(cfg, e, attempt), asked |-> TRUE]
    /\ attempt' = attempt + 1
    /\ UNCHANGED <<steps, state, context, storage, saves, pc, cur, target,
                   calls, op, result, cfg, outcome, sleeps, initial, outs,
                   aliased, caller_data, repo_calls, pipelines, inspector,
                   answer>>

\* retry_step (driver), lines 54-58: execute_fn raised e and should_retry
\* accepts: sleep for the backoff delay, then recurse with attempt + 1
DriverRetry(e) ==
    /\ pc = "driver"
    /\ should_retry(cfg, e, attempt)
    /\ invoked' = [invoked EXCEPT ![target] = @ + 1]
    /\ executions' = [executions EXCEPT ![target] = @ + 1]
    /\ decision' = [error |-> e, attempt |-> attempt,
                    answer |-> should_retry(cfg, e, attempt), asked |-> TRUE]
    /\ sleeps' = Append(sleeps, backoff_delay(cfg, attempt))
    /\ attempt' = attempt + 1
    /\ UNCHANGED <<steps, state, context, storage, saves, pc, cur, target,
                   calls, op, result, cfg, outcome, initial, outs, aliased,
                   caller_data, repo_calls, pipelines, inspector, answer>>

\* a driver that reports the limit of the policy instead of the attempts made
DriverExhaustedReportsLimit(e) ==
    /\ pc = "driver"
    /\ ~should_retry(cfg, e, attempt)
    /\ invoked' = [invoked EXCEPT ![target] = @ + 1]
    /\ executions' = [executions EXCEPT ![target] = @ + 1]
    /\ decision' = [error |-> e, attempt |-> attempt,
                    answer |-> should_retry(cfg, e, attempt), asked |-> TRUE]
    /\ outcome' = [NoOutcome EXCEPT !.kind = "raised",
                                !.error = RetryExhaustedError(target, cfg.max_attempts + 1),
                                !.attempts = cfg.max_attempts + 1]
    /\ pc' = "driver_done"
    /\ UNCHANGED <<steps, state, context, storage, saves, cur, target, calls,
                   op, result, cfg, attempt, sleeps, initial, outs, aliased,
                   caller_data, repo_calls, pipelines, inspector, answer>>

\* retry_step (driver), lines 54-55, 59-60: execute_fn raised e and
\* should_retry declines: raise RetryExhaustedError(step_name, attempt + 1)
DriverExhausted(e) ==
    /\ pc = "driver"
    /\ ~should_retry(cfg, e, attempt)
    /\ invoked' = [invoked EXCEPT ![target] = @ + 1]
    /\ executions' = [executions EXCEPT ![target] = @ + 1]
    /\ decision' = [error |-> e, attempt |-> attempt,
                    answer |-> should_retry(cfg, e, attempt), asked |-> TRUE]
    /\ outcome' = [NoOutcome EXCEPT !.kind = "raised",
                                !.error = RetryExhaustedError(target, attempt + 1),
                                !.attempts = attempt + 1]
    /\ pc' = "driver_done"
    /\ UNCHANGED <<steps, state, context, storage, saves, cur, target, calls,
                   op, result, cfg, attempt, sleeps, initial, outs, aliased,
                   caller_data, repo_calls, pipelines, inspector, answer>>

\* _execute_step lines 81-82, 87-92, 103-104: the driver returned
\* (output, attempts)
ExecuteStepReturn ==
    /\ pc = "driver_done"
    /\ outcome.kind = "returned"
    /\ context' = merge_output(context, outcome.value)
    /\ caller_data' = written_through(aliased, caller_data, context')
    /\ state' = complete_step(state, target, outcome.value, outcome.attempts)
    /\ storage' = save(storage, PipelineId)
    /\ saves' = Append(saves, state')
    /\ result' = "returned"
    /\ pc' = "idle"
    /\ UNCHANGED <<steps, cur, target, calls, op, cfg, attempt, outcome,
                   invoked, sleeps, initial, outs, decision, executions,
                   aliased, repo_calls, pipelines, inspector, answer>>

\* an exhausted retry whose FAILED record is not persisted
ExecuteStepExceptUnsaved ==
    /\ pc = "driver_done"
    /\ outcome.kind = "raised"
    /\ state' = fail_step(state, target, outcome.error)
    /\ UNCHANGED <<storage, saves, pipelines, inspector, answer>>
    /\ result' = "StepError"
    /\ pc' = "idle"
    /\ UNCHANGED <<steps, context, cur, target, calls, op, cfg, attempt,
                   outcome, invoked, sleeps, initial, outs, decision,
                   executions, aliased, caller_data, repo_calls, pipelines,
                   inspector, answer>>

\* _execute_step lines 81, 94-101: the driver raised RetryExhaustedError; the
\* StepState is stored FAILED with str(e), saved, and StepError is raised to
\* the caller of Pipeline.retry_step
ExecuteStepExcept ==
    /\ pc = "driver_done"
    /\ outcome.kind = "raised"
    /\ state' = fail_step(state, target, outcome.error)
    /\ storage' = save(storage, PipelineId)
    /\ saves' = Append(saves, state')
    /\ result' = "StepError"
    /\ pc' = "idle"
    /\ UNCHANGED <<steps, context, cur, target, calls, op, cfg, attempt,
                   outcome, invoked, sleeps, initial, outs, decision,
                   executions, aliased, caller_data, repo_calls, pipelines,
                   inspector, answer>>

\* ---------------------------------------------------------- specifications

Next ==
    \/ \E ic \in InitialContexts : RunStart(ic)
    \/ RunStepBegin
    \/ pc = "run_exec" /\ \E o \in Outputs(steps[cur]) : RunStepSucceed(o)
    \/ \E e \in Failures : RunStepFail(e)
    \/ RunExcept
    \/ RunFinish
    \/ \E name \in {steps[i] : i \in 1..Len(steps)} \cup {Unknown} :
          RetryStepNotFound(name)
    \/ \E name \in {steps[i] : i \in 1..Len(steps)} \cup {Unknown},
          rc \in {None} \cup {Some(c) : c \in PipelineConfigs} :
          RetryStepBegin(name, rc)
    \/ \E o \in Outputs(target) : DriverReturn(o)
    \/ \E e \in Failures : DriverRetry(e)
    \/ \E e \in Failures : DriverExhausted(e)
    \/ ExecuteStepReturn
    \/ ExecuteStepExcept

Spec == Init /\ [][Next]_vars

\* The retry driver called on its own (as the unit tests call it): one step,
\* any configuration, no pipeline around it.
RetryInit ==
    /\ steps = SubSeq(AllNames, 1, 1)
    /\ state = PipelineState(PipelineId)
    /\ context = ContextInit(<<>>)
    /\ storage = <<>>
    /\ saves = <<>>
    /\ pc = "driver"
    /\ cur = 0
    /\ target = AllNames[1]
    /\ calls = 0
    /\ op = NoCall
    /\ result = "none"
    /\ cfg \in DriverConfigs
    /\ attempt = 0
    /\ outcome = NoOutcome
    /\ invoked = [n \in {AllNames[1]} |-> 0]
    /\ sleeps = <<>>
    /\ initial = <<>>
    /\ outs = <<>>
    /\ decision = NoDecision
    /\ executions = [n \in {AllNames[1]} |-> 0]
    /\ aliased = FALSE
    /\ caller_data = <<>>
    /\ repo_calls = <<>>
    /\ pipelines = NoPipelines
    /\ inspector = NoInspector
    /\ answer = NoAnswer

\* RetryConfig.should_retry called on its own, before the driver starts
ShouldRetryCall(e, att) ==
    /\ pc = "driver"
    /\ invoked[target] = 0
    /\ ~decision.asked
    /\ decision' = [error |-> e, attempt |-> att,
                    answer |-> should_retry(cfg, e, att), asked |-> TRUE]
    /\ UNCHANGED <<steps, state, context, storage, saves, pc, cur, target,
                   calls, op, result, cfg, attempt, outcome, invoked, sleeps,
                   initial, outs, executions, aliased, caller_data,
                   repo_calls, pipelines, inspector, answer>>

RetryNext ==
    \/ \E e \in Errors, att \in 0..(MaxRetries + 1) : ShouldRetryCall(e, att)
    \/ \E o \in Outputs(target) : DriverReturn(o)
    \/ \E e \in Errors : DriverRetry(e)
    \/ \E e \in Errors : DriverExhausted(e)

RetrySpec == RetryInit /\ [][RetryNext]_vars

\* ---------------------------------------------------------- termination

\* the steps a call of run or retry_step takes once it has begun: the call
\* is synchronous, execute returns or raises and time.sleep returns, so a
\* call that has a next step takes one
CallStep ==
    \/ RunStepBegin
    \/ pc = "run_exec" /\ \E o \in Outputs(steps[cur]) : RunStepSucceed(o)
    \/ \E e \in Failures : RunStepFail(e)
    \/ RunExcept
    \/ RunFinish
    \/ \E o \in Outputs(target) : DriverReturn(o)
    \/ \E e \in Failures : DriverRetry(e)
    \/ \E e \in Failures : DriverExhausted(e)
    \/ ExecuteStepReturn
    \/ ExecuteStepExcept

\* the policies with a finite limit and the always-accepting predicate
FiniteConfigs ==
    { RetryConfig(m, DefaultDelay, DefaultMultiplier, Errors) : m \in 0..MaxRetries }

\* run without initial data, and retry_step with each of these policies
CallsNext ==
    \/ RunStart(<<>>)
    \/ \E name \in {steps[i] : i \in 1..Len(steps)},
          c \in FiniteConfigs : RetryStepBegin(name, Some(c))
    \/ CallStep

\* a pipeline of MaxSteps steps
CallsInit == Init /\ Len(steps) = MaxSteps

TerminationSpec == CallsInit /\ [][CallsNext]_vars /\ WF_vars(CallStep)

\* ------------------------------------------------------ inspector usage

\* Pipeline.get_inspector, lines 123-125: PipelineInspector(self._state).
\* The caller holds on to the first inspector it got, from here or from run.
GetInspector ==
    /\ pc = "idle"
    /\ ~inspector.held
    /\ inspector' = PipelineInspector(state, calls)
    /\ UNCHANGED <<steps, state, context, storage, saves, pc, cur, target,
                   calls, op, result, cfg, attempt, outcome, invoked, sleeps,
                   initial, outs, decision, executions, aliased, caller_data,
                   repo_calls, pipelines, answer>>

\* one query on the inspector held, between two operations of the pipeline
\* (one query per pause: a second query before the next operation is not
\* modelled)
InspectorQuery(q, n) ==
    /\ pc = "idle"
    /\ inspector.held
    /\ answer.query = "none"
    /\ answer' = [query |-> q, step_name |-> n,
                  value |-> query(viewed(inspector, state), q, n),
                  edits |-> 0]
    /\ UNCHANGED <<steps, state, context, storage, saves, pc, cur, target,
                   calls, op, result, cfg, attempt, outcome, invoked, sleeps,
                   initial, outs, decision, executions, aliased, caller_data,
                   repo_calls, pipelines, inspector>>

\* without the entry for name
without(mapping, name) == [m \in DOMAIN mapping \ {name} |-> mapping[m]]

\* the caller removes an entry from the mapping get_all_steps returned
ReturnedStepsRemove(name) ==
    /\ pc = "idle"
    /\ answer.query = "get_all_steps"
    /\ name \in DOMAIN answer.value
    /\ answer' = [answer EXCEPT !.value = without(@, name), !.edits = @ + 1]
    /\ state' = IF get_all_steps_aliases(state) /\ inspector.live
                THEN [state EXCEPT !.steps = without(@, name)] ELSE state
    /\ UNCHANGED <<steps, context, storage, saves, pc, cur, target, calls,
                   op, result, cfg, attempt, outcome, invoked, sleeps,
                   initial, outs, decision, executions, aliased, caller_data,
                   repo_calls, pipelines, inspector>>

\* the caller adds an entry to the mapping get_all_steps returned
ReturnedStepsAdd(name) ==
    /\ pc = "idle"
    /\ answer.query = "get_all_steps"
    /\ name \notin DOMAIN answer.value
    /\ answer' = [answer EXCEPT
          !.value = [m \in DOMAIN @ \cup {name} |->
                        IF m = name THEN StepState(name) ELSE @[m]],
          !.edits = @ + 1]
    /\ state' = IF get_all_steps_aliases(state) /\ inspector.live
                THEN add_step_state(state, StepState(name)) ELSE state
    /\ UNCHANGED <<steps, context, storage, saves, pc, cur, target, calls,
                   op, result, cfg, attempt, outcome, invoked, sleeps,
                   initial, outs, decision, executions, aliased, caller_data,
                   repo_calls, pipelines, inspector>>

\* The pipeline with a caller that keeps an inspector and asks it for the
\* state of a step after later operations: run, retry_step with the default
\* policy, get_inspector, get_step_state.
LiveNext ==
    \/ \E ic \in InitialContexts : RunStart(ic)
    \/ RunStepBegin
    \/ pc = "run_exec" /\ \E o \in Outputs(steps[cur]) : RunStepSucceed(o)
    \/ \E e \in Failures : RunStepFail(e)
    \/ RunExcept
    \/ RunFinish
    \/ \E name \in {steps[i] : i \in 1..Len(steps)} : RetryStepBegin(name, None)
    \/ \E o \in Outputs(target) : DriverReturn(o)
    \/ \E e \in Failures : DriverRetry(e)
    \/ \E e \in Failures : DriverExhausted(e)
    \/ ExecuteStepReturn
    \/ ExecuteStepExcept
    \/ GetInspector
    \/ /\ inspector.obtained_at < calls
       /\ \E n \in {steps[i] : i \in 1..Len(steps)} :
             InspectorQuery("get_step_state", n)

LiveSpec == Init /\ [][LiveNext]_vars

\* the PipelineStates the inspector's unit tests inspect: nothing recorded,
\* one step running, completed or failed, a second step, pipeline finished
\* or failed
SampleStates ==
    LET s0 == [PipelineState(PipelineId) EXCEPT !.status = "running",
                                                !.started_at = "time"]
        s1 == begin_step(s0, AllNames[1], <<>>)
        s2 == complete_step(s1, AllNames[1], StepMappings[1], 1)
        s3 == fail_step(s1, AllNames[1], Raised("ValueError"))
        s4 == begin_step(s2, AllNames[2], StepMappings[1])
        s5 == complete_step(s4, AllNames[2], StepMappings[2], 2)
        s6 == fail_step(s4, AllNames[2], Raised("ValueError"))
    IN {PipelineState(PipelineId), s0, s1, s2, s3, s4, s5, s6,
        finish_pipeline(s5), fail_pipeline(s3, StepError(AllNames[1], Raised("ValueError"))),
        fail_pipeline(s6, StepError(AllNames[2], Raised("ValueError")))}

\* An inspector on its own (as the unit tests build it): a PipelineState
\* that nothing else touches, and the queries.
QueryInit ==
    /\ steps = SubSeq(AllNames, 1, 2)
    /\ state \in SampleStates
    /\ context = ContextInit(<<>>)
    /\ storage = <<>>
    /\ saves = <<>>
    /\ pc = "idle"
    /\ cur = 0
    /\ target = ""
    /\ calls = 0
    /\ op = NoCall
    /\ result = "none"
    /\ cfg = RetryConfig(DefaultMaxAttempts, DefaultDelay, DefaultMultiplier, Errors)
    /\ attempt = 0
    /\ outcome = NoOutcome
    /\ invoked = [n \in {AllNames[1], AllNames[2]} |-> 0]
    /\ sleeps = <<>>
    /\ initial = <<>>
    /\ outs = <<>>
    /\ decision = NoDecision
    /\ executions = [n \in {AllNames[1], AllNames[2]} |-> 0]
    /\ aliased = FALSE
    /\ caller_data = <<>>
    /\ repo_calls = <<>>
    /\ pipelines = NoPipelines
    /\ inspector = PipelineInspector(state, 0)
    /\ answer = NoAnswer

QueryNext ==
    \/ \E q \in StepQueries, n \in {steps[i] : i \in 1..Len(steps)} \cup {Unknown} :
          InspectorQuery(q, n)
    \/ \E q \in PipelineQueries : InspectorQuery(q, "")
    \/ \E n \in {steps[i] : i \in 1..Len(steps)} : ReturnedStepsRemove(n)
    \/ ReturnedStepsAdd(Unknown)

QuerySpec == QueryInit /\ [][QueryNext]_vars

\* ------------------------------------------------- MemoryStateRepository

\* A repository on its own (as the unit tests use it): any sequence of
\* save, load and exists calls.
RepoInit ==
    /\ steps = SubSeq(AllNames, 1, 1)
    /\ state = PipelineState(PipelineId)
    /\ context = ContextInit(<<>>)
    /\ storage = <<>>
    /\ saves = <<>>
    /\ pc = "repo"
    /\ cur = 0
    /\ target = ""
    /\ calls = 0
    /\ op = NoCall
    /\ result = "none"
    /\ cfg = RetryConfig(DefaultMaxAttempts, DefaultDelay, DefaultMultiplier, Errors)
    /\ attempt = 0
    /\ outcome = NoOutcome
    /\ invoked = [n \in {AllNames[1]} |-> 0]
    /\ sleeps = <<>>
    /\ initial = <<>>
    /\ outs = <<>>
    /\ decision = NoDecision
    /\ executions = [n \in {AllNames[1]} |-> 0]
    /\ aliased = FALSE
    /\ caller_data = <<>>
    /\ repo_calls = <<>>
    /\ pipelines = NoPipelines
    /\ inspector = NoInspector
    /\ answer = NoAnswer

\* everything but the repository and the log of calls
pipeline_vars ==
    <<steps, state, context, saves, pc, cur, target, calls, op, result, cfg,
      attempt, outcome, invoked, sleeps, initial, outs, decision, executions,
      aliased, caller_data, pipelines, inspector, answer>>

\* MemoryStateRepository.save, lines 14-16
RepoSave(id, obj) ==
    /\ pc = "repo"
    /\ Len(repo_calls) < MaxRepoCalls
    /\ storage' = memory_save(storage, id, obj)
    /\ repo_calls' = Append(repo_calls,
          [call |-> "save", id |-> id, state |-> obj, found |-> TRUE])
    /\ UNCHANGED pipeline_vars

\* MemoryStateRepository.load, lines 18-22: found is FALSE when KeyError is
\* raised
RepoLoad(id) ==
    /\ pc = "repo"
    /\ Len(repo_calls) < MaxRepoCalls
    /\ repo_calls' = Append(repo_calls,
          [call |-> "load", id |-> id, state |-> load(storage, id),
           found |-> load(storage, id) # "KeyError"])
    /\ UNCHANGED storage
    /\ UNCHANGED pipeline_vars

\* MemoryStateRepository.exists, lines 24-26
RepoExists(id) ==
    /\ pc = "repo"
    /\ Len(repo_calls) < MaxRepoCalls
    /\ repo_calls' = Append(repo_calls,
          [call |-> "exists", id |-> id, state |-> "",
           found |-> exists(storage, id)])
    /\ UNCHANGED storage
    /\ UNCHANGED pipeline_vars

RepoNext ==
    \/ \E id \in RepoIds, obj \in RepoStates : RepoSave(id, obj)
    \/ \E id \in RepoIds : RepoLoad(id)
    \/ \E id \in RepoIds : RepoExists(id)

RepoSpec == RepoInit /\ [][RepoNext]_vars

\* ------------------------------------ pipelines sharing one repository

\* Two Pipeline instances with distinct ids and one MemoryStateRepository
\* (as document_processing/main.py shares its repository). Of a pipeline
\* only what touches the repository is kept: it changes its own state
\* object, and it calls _save_state; the calls of the two interleave freely.
SharedInit ==
    /\ steps = SubSeq(AllNames, 1, 1)
    /\ state = PipelineState(PipelineId)
    /\ context = ContextInit(<<>>)
    /\ storage = <<>>
    /\ saves = <<>>
    /\ pc = "shared"
    /\ cur = 0
    /\ target = ""
    /\ calls = 0
    /\ op = NoCall
    /\ result = "none"
    /\ cfg = RetryConfig(DefaultMaxAttempts, DefaultDelay, DefaultMultiplier, Errors)
    /\ attempt = 0
    /\ outcome = NoOutcome
    /\ invoked = [n \in {AllNames[1]} |-> 0]
    /\ sleeps = <<>>
    /\ initial = <<>>
    /\ outs = <<>>
    /\ decision = NoDecision
    /\ executions = [n \in {AllNames[1]} |-> 0]
    /\ aliased = FALSE
    /\ caller_data = <<>>
    /\ repo_calls = <<>>
    /\ pipelines = NoPipelines
    /\ inspector = NoInspector
    /\ answer = NoAnswer

\* run / _execute_step: an assignment to the pipeline's own state object
\* (status, a StepState, error), before the _save_state that follows it
PipelineChange(id) ==
    /\ pc = "shared"
    /\ pipelines[id].version < MaxRepoCalls
    /\ pipelines' = [pipelines EXCEPT ![id].version = @ + 1]
    /\ UNCHANGED <<steps, state, context, storage, saves, pc, cur, target,
                   calls, op, result, cfg, attempt, outcome, invoked, sleeps,
                   initial, outs, decision, executions, aliased, caller_data,
                   repo_calls, inspector, answer>>

\* Pipeline._save_state, lines 131-134: save(self.pipeline_id, self._state)
PipelineSave(id) ==
    /\ pc = "shared"
    /\ storage' = save(storage, id)
    /\ pipelines' = [pipelines EXCEPT ![id].saved = pipelines[id].version]
    /\ UNCHANGED <<steps, state, context, saves, pc, cur, target, calls, op,
                   result, cfg, attempt, outcome, invoked, sleeps, initial,
                   outs, decision, executions, aliased, caller_data,
                   repo_calls, inspector, answer>>

SharedNext ==
    \/ \E id \in RepoIds : PipelineChange(id)
    \/ \E id \in RepoIds : PipelineSave(id)

SharedSpec == SharedInit /\ [][SharedNext]_vars

\* The usage of the integration test test_pipeline_with_retry: run the
\* pipeline, then retry a step with RetryConfig(max_attempts=5).
FlakyNext ==
    \/ \E ic \in InitialContexts : RunStart(ic)
    \/ RunStepBegin
    \/ pc = "run_exec" /\ \E o \in Outputs(steps[cur]) : RunStepSucceed(o)
    \/ \E e \in Failures : RunStepFail(e)
    \/ RunExcept
    \/ RunFinish
    \/ \E name \in {steps[i] : i \in 1..Len(steps)} :
          RetryStepBegin(name, Some(FlakyConfig))
    \/ \E o \in Outputs(target) : DriverReturn(o)
    \/ \E e \in Failures : DriverRetry(e)
    \/ \E e \in Failures : DriverExhausted(e)
    \/ ExecuteStepReturn
    \/ ExecuteStepExcept

FlakySpec == Init /\ [][FlakyNext]_vars

\* The pipeline with a caller that also writes to the live Context between
\* operations (get_context().set) and retries with the default policy.
OutOfBandNext ==
    \/ \E ic \in InitialContexts : RunStart(ic)
    \/ RunStepBegin
    \/ pc = "run_exec" /\ \E o \in Outputs(steps[cur]) : RunStepSucceed(o)
    \/ \E e \in Failures : RunStepFail(e)
    \/ RunExcept
    \/ RunFinish
    \/ \E name \in {steps[i] : i \in 1..Len(steps)} : RetryStepBegin(name, None)
    \/ \E o \in Outputs(target) : DriverReturn(o)
    \/ \E e \in Failures : DriverRetry(e)
    \/ \E e \in Failures : DriverExhausted(e)
    \/ ExecuteStepReturn
    \/ ExecuteStepExcept
    \/ \E key \in SetKeys, value \in SetValues : ContextSet(key, value)

OutOfBandSpec == Init /\ [][OutOfBandNext]_vars

\* the pipeline with a caller that also clears the Context between operations
ClearNext ==
    \/ OutOfBandNext
    \/ ContextClear

ClearSpec == Init /\ [][ClearNext]_vars

\* ------------------------------------------------------ Pipeline.__init__

\* The constructor as an operation of its own: before it has returned there
\* is no Pipeline (pc = "unbuilt", state is NoPipelineState).
NoPipelineState == [PipelineState("") EXCEPT !.status = "unbuilt"]
StepLists == { SubSeq(AllNames, 1, n) : n \in 0..MaxSteps }

\* a constructor that takes any list
steps_given_any(step_list) == TRUE

\* __init__, line 24: if not steps
steps_given(step_list) == Len(step_list) > 0

ConstructInit ==
    /\ steps = <<>>
    /\ state = NoPipelineState
    /\ context = <<>>
    /\ storage = <<>>
    /\ saves = <<>>
    /\ pc = "unbuilt"
    /\ cur = 0
    /\ target = ""
    /\ calls = 0
    /\ op = NoCall
    /\ result = "none"
    /\ cfg = RetryConfig(DefaultMaxAttempts, DefaultDelay, DefaultMultiplier, Errors)
    /\ attempt = 0
    /\ outcome = NoOutcome
    /\ invoked = <<>>
    /\ sleeps = <<>>
    /\ initial = <<>>
    /\ outs = <<>>
    /\ decision = NoDecision
    /\ executions = <<>>
    /\ aliased = FALSE
    /\ caller_data = <<>>
    /\ repo_calls = <<>>
    /\ pipelines = NoPipelines
    /\ inspector = NoInspector
    /\ answer = NoAnswer

\* __init__, lines 24-25: an empty list raises ValueError, nothing is built
PipelineInitRaises(step_list) ==
    /\ pc = "unbuilt"
    /\ ~steps_given(step_list)
    /\ op' = [name |-> "__init__", step_name |-> ""]
    /\ result' = "ValueError"
    /\ UNCHANGED <<steps, state, context, storage, saves, pc, cur, target,
                   calls, cfg, attempt, outcome, invoked, sleeps, initial,
                   outs, decision, executions, aliased, caller_data,
                   repo_calls, pipelines, inspector, answer>>

\* __init__, lines 27-31: the steps are kept, a PipelineState and an empty
\* Context are created
PipelineInit(step_list) ==
    /\ pc = "unbuilt"
    /\ steps_given(step_list)
    /\ op' = [name |-> "__init__", step_name |-> ""]
    /\ result' = "returned"
    /\ steps' = step_list
    /\ state' = PipelineState(PipelineId)
    /\ context' = ContextInit(<<>>)
    /\ invoked' = [n \in {step_list[i] : i \in 1..Len(step_list)} |-> 0]
    /\ executions' = [n \in {step_list[i] : i \in 1..Len(step_list)} |-> 0]
    /\ pc' = "idle"
    /\ UNCHANGED <<storage, saves, cur, target, calls, cfg, attempt, outcome,
                   sleeps, initial, outs, decision, aliased, caller_data,
                   repo_calls, pipelines, inspector, answer>>

\* a Pipeline from its construction on: construction, get_inspector, run
ConstructNext ==
    \/ \E step_list \in StepLists : PipelineInitRaises(step_list)
    \/ \E step_list \in StepLists : PipelineInit(step_list)
    \/ GetInspector
    \/ \E ic \in InitialContexts : RunStart(ic)
    \/ RunStepBegin
    \/ pc = "run_exec" /\ \E o \in Outputs(steps[cur]) : RunStepSucceed(o)
    \/ \E e \in Failures : RunStepFail(e)
    \/ RunExcept
    \/ RunFinish

ConstructSpec == ConstructInit /\ [][ConstructNext]_vars

\* ------------------------------------------------------- Context.to_dict

\* A Context on its own (as the unit tests use it) and a caller holding the
\* mapping to_dict returned: caller_data is that mapping, aliased says
\* whether it is the Context's own _data.
SnapshotKeys == {"a", "b", "c"}
SnapshotValues == {1, 9}

\* context = Context(data); result = context.to_dict()
SnapshotInit ==
    /\ steps = SubSeq(AllNames, 1, 1)
    /\ state = PipelineState(PipelineId)
    /\ context \in { ContextInit(d) : d \in InitialContexts }
    /\ storage = <<>>
    /\ saves = <<>>
    /\ pc = "idle"
    /\ cur = 0
    /\ target = ""
    /\ calls = 0
    /\ op = [name |-> "to_dict", step_name |-> ""]
    /\ result = "none"
    /\ cfg = RetryConfig(DefaultMaxAttempts, DefaultDelay, DefaultMultiplier, Errors)
    /\ attempt = 0
    /\ outcome = NoOutcome
    /\ invoked = [n \in {AllNames[1]} |-> 0]
    /\ sleeps = <<>>
    /\ initial = <<>>
    /\ outs = <<>>
    /\ decision = NoDecision
    /\ executions = [n \in {AllNames[1]} |-> 0]
    /\ aliased = to_dict_aliases(context)
    /\ caller_data = to_dict(context)
    /\ repo_calls = <<>>
    /\ pipelines = NoPipelines
    /\ inspector = NoInspector
    /\ answer = NoAnswer

\* the caller takes a new snapshot and drops the one it held
ContextToDict ==
    /\ pc = "idle"
    /\ op' = [name |-> "to_dict", step_name |-> ""]
    /\ caller_data' = to_dict(context)
    /\ aliased' = to_dict_aliases(context)
    /\ UNCHANGED <<steps, state, context, storage, saves, pc, cur, target,
                   calls, result, cfg, attempt, outcome, invoked, sleeps,
                   initial, outs, decision, executions, repo_calls,
                   pipelines, inspector, answer>>

\* the caller adds or rebinds a key of the snapshot it holds; the Context
\* receives the write exactly when the snapshot is the Context's own mapping
SnapshotSet(key, value) ==
    /\ pc = "idle"
    /\ caller_data' = set(caller_data, key, value)
    /\ context' = written_through(aliased, context, caller_data')
    /\ UNCHANGED <<steps, state, storage, saves, pc, cur, target, calls, op,
                   result, cfg, attempt, outcome, invoked, sleeps, initial,
                   outs, decision, executions, aliased, repo_calls,
                   pipelines, inspector, answer>>

\* the caller removes a key from the snapshot it holds
SnapshotRemove(key) ==
    /\ pc = "idle"
    /\ key \in DOMAIN caller_data
    /\ caller_data' = without(caller_data, key)
    /\ context' = written_through(aliased, context, caller_data')
    /\ UNCHANGED <<steps, state, storage, saves, pc, cur, target, calls, op,
                   result, cfg, attempt, outcome, invoked, sleeps, initial,
                   outs, decision, executions, aliased, repo_calls,
                   pipelines, inspector, answer>>

SnapshotNext ==
    \/ ContextToDict
    \/ \E key \in SnapshotKeys, value \in SnapshotValues : SnapshotSet(key, value)
    \/ \E key \in SnapshotKeys : SnapshotRemove(key)
    \/ \E key \in SnapshotKeys, value \in SnapshotValues : ContextSet(key, value)
    \/ ContextClear

SnapshotSpec == SnapshotInit /\ [][SnapshotNext]_vars

\* ----------------------------------------------------------------- claims

Declared == {steps[i] : i \in 1..Len(steps)}
Recorded == DOMAIN state.steps

\* run has returned or raised, and nothing was called since
RunEnded == pc = "idle" /\ op.name = "run"

\* Pipeline.retry_step has returned or raised, and nothing was called since
RetryEnded == pc = "idle" /\ op.name = "retry_step"

\* C1: when run has ended and no execute of this run raised, run returned an
\* inspector, the pipeline is COMPLETED and every declared step has a
\* COMPLETED StepState with attempts = 1.
C1_AllSucceedCompleted ==
    (RunEnded /\ outcome.kind # "raised") =>
        /\ result = "PipelineInspector"
        /\ state.status = "completed"
        /\ \A i \in 1..Len(steps) :
              /\ steps[i] \in Recorded
              /\ state.steps[steps[i]].status = "completed"
              /\ state.steps[steps[i]].attempts = 1
              /\ invoked[steps[i]] = 1

C1_Witness ==
    /\ RunEnded
    /\ outcome.kind = "returned"
    /\ Len(steps) >= 2
    /\ result = "PipelineInspector"

\* C2: fail-fast.  When run has ended because the step at index cur raised,
\* every earlier step is COMPLETED, that step is FAILED, no later step was
\* executed or has a StepState, and the pipeline is FAILED.
C2_FailFast ==
    (RunEnded /\ outcome.kind = "raised") =>
        /\ \A i \in 1..(cur - 1) :
              steps[i] \in Recorded /\ state.steps[steps[i]].status = "completed"
        /\ steps[cur] \in Recorded /\ state.steps[steps[cur]].status = "failed"
        /\ \A i \in (cur + 1)..Len(steps) :
              invoked[steps[i]] = 0 /\ steps[i] \notin Recorded
        /\ state.status = "failed"

\* C3: between caller operations, a COMPLETED pipeline has only COMPLETED
\* StepStates.
C3_CompletedImpliesAllCompleted ==
    (pc = "idle" /\ state.status = "completed") =>
        \A n \in Recorded : state.steps[n].status = "completed"

\* C4: between caller operations, a FAILED pipeline has a FAILED StepState
\* and no StepState for any step declared after that step.
C4_FailedImpliesFailedStepLast ==
    (pc = "idle" /\ state.status = "failed") =>
        \E i \in 1..Len(steps) :
            /\ steps[i] \in Recorded
            /\ state.steps[steps[i]].status = "failed"
            /\ \A j \in (i + 1)..Len(steps) : steps[j] \notin Recorded

\* the index of the last mapping of seq that has key k, 0 if none has
RECURSIVE LastWriter(_, _, _)
LastWriter(seq, k, i) ==
    IF i = 0 THEN 0
    ELSE IF k \in DOMAIN seq[i] THEN i ELSE LastWriter(seq, k, i - 1)

\* C5: after a successful run the context holds exactly the keys of the
\* initial data and of the steps' mappings, each with the value of its last
\* writer in declared order.
C5_ContextIsOrderedMerge ==
    (RunEnded /\ result = "PipelineInspector") =>
        /\ Len(outs) = Len(steps)
        /\ DOMAIN context =
              DOMAIN initial \cup UNION {DOMAIN outs[i] : i \in 1..Len(outs)}
        /\ \A k \in DOMAIN context :
              LET w == LastWriter(outs, k, Len(outs))
              IN context[k] = IF w = 0 THEN initial[k] ELSE outs[w][k]

C5_Witness ==
    /\ RunEnded
    /\ result = "PipelineInspector"
    /\ Len(outs) >= 2
    /\ "a" \in DOMAIN initial /\ "a" \in DOMAIN outs[1] /\ "a" \in DOMAIN outs[2]
    /\ "b" \in DOMAIN initial /\ "b" \notin DOMAIN outs[1]
    /\ outs[1]["a"] # outs[2]["a"]

\* C6: with a predicate accepting every error, the driver gives up only after
\* max_attempts + 1 invocations and max_attempts sleeps, and then raises
\* RetryExhaustedError with the step name and attempts = max_attempts + 1;
\* it never invokes the step more often than that.
C6_ExhaustedAfterNPlusOne ==
    /\ (cfg.retry_on = Errors /\ pc \in {"driver", "driver_done"}) =>
          invoked[target] <= cfg.max_attempts + 1
    /\ (cfg.retry_on = Errors /\ pc = "driver_done" /\ outcome.kind = "raised") =>
          /\ invoked[target] = cfg.max_attempts + 1
          /\ Len(sleeps) = cfg.max_attempts
          /\ outcome.error = RetryExhaustedError(target, cfg.max_attempts + 1)

C6_Witness ==
    /\ cfg.retry_on = Errors
    /\ pc = "driver_done"
    /\ outcome.kind = "raised"
    /\ cfg.max_attempts = MaxRetries
    /\ invoked[target] = MaxRetries + 1

RECURSIVE Power(_, _)
Power(b, n) == IF n = 0 THEN 1 ELSE b * Power(b, n - 1)

\* C7: the i-th sleep of a driver run, the one before attempt i (0-indexed),
\* lasts delay * backoff_multiplier^(i - 1).
C7_BackoffDelays ==
    pc \in {"driver", "driver_done"} =>
        /\ Len(sleeps) = attempt
        /\ \A i \in 1..Len(sleeps) :
              sleeps[i] = cfg.delay * Power(cfg.backoff_multiplier, i - 1)

C7_Witness ==
    /\ pc \in {"driver", "driver_done"}
    /\ Len(sleeps) >= 2
    /\ cfg.delay = 3
    /\ cfg.backoff_multiplier = 2
    /\ sleeps[1] = 3 /\ sleeps[2] = 6

\* C8: every should_retry answer equals (attempt < max_attempts and the
\* predicate accepts the error); with the default predicate it is true
\* exactly for attempts 0..max_attempts-1.
C8_ShouldRetry ==
    decision.asked =>
        /\ decision.answer =
              (decision.attempt < cfg.max_attempts /\ decision.error \in cfg.retry_on)
        /\ cfg.retry_on = Errors =>
              (decision.answer = (decision.attempt \in 0..(cfg.max_attempts - 1)))

C8_Witness ==
    /\ decision.asked
    /\ decision.answer = FALSE
    /\ decision.attempt < cfg.max_attempts
    /\ cfg.retry_on # {} /\ cfg.retry_on # Errors

\* C9: a retry_step call naming no declared step raises the not-found error
\* and changes neither the PipelineState, the context nor the repository,
\* saves nothing and invokes no step.
C9_NotFoundChangesNothing ==
    [][(op'.name = "retry_step" /\ calls' = calls + 1
            /\ op'.step_name \notin Declared) =>
        /\ result' = "ValueError"
        /\ pc' = "idle"
        /\ state' = state
        /\ context' = context
        /\ storage' = storage
        /\ saves' = <<>>
        /\ \A n \in Declared : invoked'[n] = 0]_vars

C9_Witness ==
    /\ RetryEnded
    /\ op.step_name \notin Declared
    /\ result = "ValueError"
    /\ state.status = "failed"
    /\ Recorded # {}

\* C10: no step of a retry_step call changes the pipeline status or error,
\* nor the presence or content of another step's StepState, nor invokes
\* another step.
C10_RetryTouchesOnlyItsStep ==
    [][op'.name = "retry_step" =>
        /\ state'.status = state.status
        /\ state'.error = state.error
        /\ \A n \in Declared \ {op'.step_name} :
              /\ n \in DOMAIN state'.steps <=> n \in DOMAIN state.steps
              /\ n \in DOMAIN state.steps => state'.steps[n] = state.steps[n]
              /\ invoked'[n] = 0
        /\ DOMAIN state'.steps \subseteq DOMAIN state.steps \cup {op'.step_name}]_vars

C10_Witness ==
    /\ RetryEnded
    /\ result = "returned"
    /\ state.status = "failed"
    /\ Len(steps) >= 2
    /\ op.step_name = steps[1]
    /\ state.steps[steps[1]].status = "completed"
    /\ steps[2] \notin Recorded

\* C11: the step of retry_step that handles the driver's successful return
\* merges the returned mapping into the context (its keys overriding) and
\* leaves the step's StepState COMPLETED with that output, no error and the
\* attempt count the driver returned, which is the number of invocations
\* made during this retry.
C11_RetrySuccessMergesAndReplaces ==
    [][(op.name = "retry_step" /\ pc = "driver_done" /\ pc' = "idle"
            /\ outcome.kind = "returned") =>
        /\ result' = "returned"
        /\ DOMAIN context' = DOMAIN context \cup DOMAIN outcome.value
        /\ \A k \in DOMAIN context' :
              context'[k] = IF k \in DOMAIN outcome.value
                            THEN outcome.value[k] ELSE context[k]
        /\ state'.steps[op.step_name].status = "completed"
        /\ state'.steps[op.step_name].output_data = Some(outcome.value)
        /\ state'.steps[op.step_name].error = NoError
        /\ state'.steps[op.step_name].attempts = outcome.attempts
        /\ state'.steps[op.step_name].attempts = invoked[op.step_name]]_vars

C11_Witness ==
    /\ RetryEnded
    /\ result = "returned"
    /\ state.status = "failed"
    /\ state.error.step = op.step_name
    /\ state.steps[op.step_name].attempts >= 2
    /\ "a" \in DOMAIN state.steps[op.step_name].input_data.val
    /\ "a" \in DOMAIN outcome.value
    /\ context["a"] # state.steps[op.step_name].input_data.val["a"]

\* C12: when Pipeline.retry_step has ended by exhausting its policy, the
\* step's StepState is FAILED, carries an error, and its attempts field is
\* the number of attempts made during the retry.
C12_ExhaustedRecordsAttempts ==
    (RetryEnded /\ result = "StepError") =>
        /\ state.steps[op.step_name].status = "failed"
        /\ state.steps[op.step_name].error # NoError
        /\ state.steps[op.step_name].attempts = invoked[op.step_name]

\* The flaky-step scenario: the first caller operation was a run that failed
\* at a step (one invocation, raised), the second is retry_step of that step
\* with max_attempts = 5, in which the step raised once more and then
\* returned: it failed its first two invocations and succeeded on the third.
FlakyScenario ==
    /\ RetryEnded /\ calls = 2 /\ cfg = FlakyConfig
    /\ state.status = "failed" /\ state.error.step = op.step_name
    /\ result = "returned" /\ invoked[op.step_name] = 2

C14_RunFailureRecorded ==
    (op.name = "run" /\ outcome.kind = "raised") =>
        /\ state.steps[steps[cur]].status = "failed"
        /\ state.steps[steps[cur]].error # NoError
        /\ state.steps[steps[cur]].error = Raised(outcome.error.cause)
        /\ \/ pc = "run_except"
           \/ /\ pc = "idle"
              /\ result = "PipelineExecutionError"
              /\ state.status = "failed"
              /\ state.error # NoError
              /\ state.error.step = steps[cur]
              /\ PipelineId \in DOMAIN storage
              /\ saves[Len(saves)] = state

C14_Witness ==
    /\ RunEnded /\ result = "PipelineExecutionError"
    /\ cur = 2 /\ calls = 1
    /\ state.steps[steps[1]].status = "completed"
    /\ state.steps[steps[2]].status = "failed"
    /\ state.error = StepError(steps[2], Raised("ValueError"))

\* C15: throughout a run no retry policy is consulted and nothing sleeps;
\* every step before the loop position has been invoked exactly once, the
\* step at the loop position once if it raised and not yet otherwise, and
\* every later step never.
C15_RunInvokesEachStepOnce ==
    op.name = "run" =>
        /\ sleeps = <<>>
        /\ ~decision.asked
        /\ \A i \in 1..Len(steps) :
              invoked[steps[i]] =
                  IF i < cur THEN 1
                  ELSE IF i = cur /\ outcome.kind = "raised" THEN 1
                  ELSE 0
        /\ (pc = "idle" /\ result = "PipelineInspector") => cur = Len(steps) + 1

C15_Witness ==
    /\ RunEnded /\ result = "PipelineExecutionError"
    /\ Len(steps) = 2 /\ cur = 1
    /\ invoked[steps[1]] = 1 /\ invoked[steps[2]] = 0
    /\ steps[2] \notin DOMAIN state.steps

\* the number of steps of the current run whose execution has begun
Begun ==
    IF pc = "run_loop" THEN cur - 1
    ELSE IF pc = "idle" /\ result = "PipelineInspector" THEN Len(steps)
    ELSE cur

\* C16: the saves of a run, in order: one with the pipeline RUNNING; for
\* each executed step one with the step RUNNING and then one with it
\* COMPLETED or FAILED; one at the end with the pipeline COMPLETED or FAILED.
\* Between a step's two saves the stored state shows the step RUNNING.
C16_RunSaveOrder ==
    op.name = "run" =>
        /\ PipelineId \in DOMAIN storage
        /\ Len(saves) = 1 + 2 * Begun
                         - (IF pc = "run_exec" THEN 1 ELSE 0)
                         + (IF pc = "idle" THEN 1 ELSE 0)
        /\ saves[1].status = "running"
        /\ \A i \in 1..Begun :
              /\ saves[2 * i].status = "running"
              /\ saves[2 * i].steps[steps[i]].status = "running"
              /\ (2 * i + 1 <= Len(saves)) =>
                    /\ saves[2 * i + 1].status = "running"
                    /\ saves[2 * i + 1].steps[steps[i]].status =
                          IF i = cur /\ outcome.kind = "raised"
                          THEN "failed" ELSE "completed"
        /\ pc = "run_exec" =>
              /\ saves[Len(saves)] = state
              /\ state.steps[steps[cur]].status = "running"
        /\ pc = "idle" =>
              /\ saves[Len(saves)] = state
              /\ state.status = IF outcome.kind = "raised"
                                THEN "failed" ELSE "completed"

C16_Witness ==
    /\ RunEnded /\ result = "PipelineInspector"
    /\ Len(steps) = 2 /\ Len(saves) = 6
    /\ saves[4].steps[steps[2]].status = "running"
    /\ saves[5].steps[steps[2]].status = "completed"
    /\ saves[5].status = "running"
    /\ saves[6].status = "completed"

\* C17: the pipeline status changes only from PENDING to RUNNING, from
\* RUNNING to COMPLETED and from RUNNING to FAILED.
C17_StatusTransitions ==
    [][state'.status # state.status =>
          <<state.status, state'.status>> \in
              { <<"pending", "running">>, <<"running", "completed">>,
                <<"running", "failed">> }]_vars

\* C18: when a run has returned or raised, the PipelineState holds StepState
\* records for exactly the steps executed in that run.
C18_RunStartsFromFreshState ==
    RunEnded => DOMAIN state.steps = {steps[i] : i \in 1..Begun}

\* C19: while the first step of a run has not returned or raised, the
\* Context holds exactly the initial data of that run, whatever earlier
\* operations wrote; and throughout the run the caller's own mapping holds
\* what the caller passed.
C19_RunSeedsFreshContext ==
    op.name = "run" =>
        /\ caller_data = initial
        /\ (cur = 1 /\ pc \in {"run_loop", "run_exec"}) => context = initial
        /\ Begun >= 1 => state.steps[steps[1]].input_data = Some(initial)

C19_Witness ==
    /\ op.name = "run" /\ pc = "run_exec" /\ cur = 1 /\ calls = 2
    /\ Len(steps) = 2
    /\ executions[steps[2]] = 1
    /\ state.steps[steps[2]].output_data = Some(StepMappings[2])
    /\ initial = <<>> /\ context = <<>>

\* the Context just before the i-th step of the latest run executed: the
\* initial data overlaid with the mappings of steps 1..i-1, last writer wins
ContextBefore(i) ==
    [k \in DOMAIN initial \cup UNION {DOMAIN outs[j] : j \in 1..(i - 1)} |->
        LET w == LastWriter(outs, k, i - 1)
        IN IF w = 0 THEN initial[k] ELSE outs[w][k]]

\* the number of steps whose execution the latest run has begun
RunExecuted ==
    IF op.name = "run" THEN Begun
    ELSE IF state.status = "pending" THEN 0
    ELSE Len(outs) + (IF state.status = "failed" THEN 1 ELSE 0)

\* the record of step n was replaced because n began to execute again
Reexecuted(n) ==
    /\ \/ pc = "run_loop" /\ pc' = "run_exec" /\ steps[cur] = n
       \/ pc = "idle" /\ pc' = "driver" /\ target' = n
    /\ state'.steps[n].input_data = Some(context)

\* C20 (as stated): the input of every step the latest run executed is the
\* Context before that step, whatever step was executed or retried since.
C20_InputIsContextBeforeStep ==
    \A i \in 1..RunExecuted :
        state.steps[steps[i]].input_data = Some(ContextBefore(i))

\* C20 (amended): during a run the input of every step begun so far is the
\* Context before that step; and a recorded input changes only when that
\* very step begins to execute again (in a later run or by retry_step of
\* that step), never by its own output, a later step, an out-of-band write
\* or the retry of another step.
C20_InputSnapshotKept ==
    [][/\ op'.name = "run" =>
              \A i \in 1..Begun' :
                  state'.steps[steps[i]].input_data = Some(ContextBefore(i)')
       /\ \A n \in DOMAIN state.steps :
              state'.steps[n].input_data # state.steps[n].input_data =>
                  Reexecuted(n)]_vars

C20_Witness ==
    /\ RetryEnded /\ result = "returned" /\ state.status = "failed"
    /\ Len(steps) = 2 /\ op.step_name = steps[2]
    /\ outs = <<StepMappings[1]>> /\ outcome.value = StepMappings[2]
    /\ state.steps[steps[1]].input_data = Some(initial)
    /\ state.steps[steps[2]].input_data = Some(ContextBefore(2))
    /\ context # ContextBefore(2)

\* C21: while retry_step executes a step, the recorded input of that step
\* is the live Context of that moment (out-of-band writes included); when
\* the retry is exhausted the Context is still that input.
C21_RetryUsesCurrentContext ==
    /\ pc \in {"driver", "driver_done"} =>
          /\ target = op.step_name
          /\ state.steps[target].input_data = Some(context)
    /\ (RetryEnded /\ result = "StepError") =>
          state.steps[target].input_data = Some(context)

C21_Witness ==
    /\ pc = "driver" /\ calls = 2 /\ invoked[target] = 0
    /\ state.status = "failed" /\ state.error.step = target
    /\ context # ContextBefore(RunExecuted)
    /\ context = set(ContextBefore(RunExecuted), "a", 9)
    /\ state.steps[target].input_data = Some(context)

\* C22: the records of the PipelineState are keyed by declared step names,
\* one per name, never more than there are declared steps; while a step is
\* being executed (by run or by retry_step) its record is the one of that
\* execution: RUNNING, no output, no error, no attempts yet.
C22_OneRecordPerDeclaredStep ==
    /\ DOMAIN state.steps \subseteq Declared
    /\ Cardinality(DOMAIN state.steps) <= Len(steps)
    /\ \A n \in DOMAIN state.steps : state.steps[n].step_name = n
    /\ \A n \in Declared :
          (\/ pc = "run_exec" /\ n = steps[cur]
           \/ pc \in {"driver", "driver_done"} /\ n = target) =>
              /\ n \in DOMAIN state.steps
              /\ state.steps[n].status = "running"
              /\ state.steps[n].output_data = None
              /\ state.steps[n].error = NoError
              /\ state.steps[n].attempts = 0

C22_Witness ==
    /\ pc = "driver" /\ calls = 2 /\ state.status = "completed"
    /\ Len(steps) = 2 /\ target = steps[1] /\ outs[1] # <<>>
    /\ DOMAIN state.steps = Declared
    /\ state.steps[target].status = "running"
    /\ state.steps[target].output_data = None

\* C23: every recorded StepState is RUNNING, COMPLETED or FAILED (never
\* PENDING or SKIPPED); a record is created RUNNING, and its status changes
\* only from RUNNING to COMPLETED or FAILED, or back to RUNNING when the
\* step begins a new execution.
C23_StepStatusMoves ==
    [][\A n \in DOMAIN state'.steps :
          /\ state'.steps[n].status \in {"running", "completed", "failed"}
          /\ n \notin DOMAIN state.steps => state'.steps[n].status = "running"
          /\ (n \in DOMAIN state.steps
                  /\ state'.steps[n].status # state.steps[n].status) =>
                \/ Reexecuted(n) /\ state'.steps[n].status = "running"
                \/ /\ state.steps[n].status = "running"
                   /\ state'.steps[n].status \in {"completed", "failed"}]_vars

C23_Witness ==
    /\ RetryEnded /\ result = "StepError" /\ calls = 2
    /\ state.status = "completed"
    /\ saves[1].steps[target].status = "running"
    /\ saves[Len(saves)].steps[target].status = "failed"
    /\ state.steps[target].status = "failed"

\* the positions among the first n repository calls that saved id
SavesOf(id, n) ==
    {j \in 1..n : repo_calls[j].call = "save" /\ repo_calls[j].id = id}

\* the object handed to the last of those saves
LastSaved(id, n) ==
    repo_calls[CHOOSE j \in SavesOf(id, n) : \A i \in SavesOf(id, n) : i <= j].state

\* C24: after any sequence of save, load and exists calls: exists(id) holds
\* exactly when id was saved; load(id) gives the object of the last save of
\* id, and KeyError when there was none; the repository holds exactly the
\* saved ids (a failed load added or removed nothing); every answer given
\* along the way was right at its time; saving the same id and object
\* again changes nothing, and a second save of an id replaces the first.
C24_RepositoryContract ==
    /\ \A id \in RepoIds :
          /\ exists(storage, id) <=> SavesOf(id, Len(repo_calls)) # {}
          /\ load(storage, id) =
                IF SavesOf(id, Len(repo_calls)) = {} THEN "KeyError"
                ELSE LastSaved(id, Len(repo_calls))
    /\ DOMAIN storage = {id \in RepoIds : SavesOf(id, Len(repo_calls)) # {}}
    /\ \A j \in 1..Len(repo_calls) :
          LET c == repo_calls[j]
          IN /\ c.call \in {"load", "exists"} =>
                    (c.found <=> SavesOf(c.id, j - 1) # {})
             /\ (c.call = "load" /\ c.found) =>
                    c.state = LastSaved(c.id, j - 1)
             /\ (c.call = "load" /\ ~c.found) => c.state = "KeyError"
    /\ \A id \in RepoIds, obj \in RepoStates :
          /\ memory_save(memory_save(storage, id, obj), id, obj) =
                memory_save(storage, id, obj)
          /\ \A other \in RepoStates :
                /\ load(memory_save(memory_save(storage, id, other), id, obj), id)
                      = obj
                /\ memory_save(memory_save(storage, id, other), id, obj) =
                      memory_save(storage, id, obj)

C24_Witness ==
    /\ pc = "repo" /\ Len(repo_calls) = 3
    /\ repo_calls[1] = [call |-> "save", id |-> "p1", state |-> "state1",
                         found |-> TRUE]
    /\ repo_calls[2] = [call |-> "save", id |-> "p1", state |-> "state2",
                         found |-> TRUE]
    /\ repo_calls[3] = [call |-> "load", id |-> "p1", state |-> "state2",
                         found |-> TRUE]
    /\ ~exists(storage, "p2") /\ load(storage, "p2") = "KeyError"

\* what the round trip compares: the pipeline status and, per step, the
\* status and the attempt count
Projection(st) ==
    [status |-> st.status,
     steps |-> [n \in DOMAIN st.steps |->
                   [status |-> st.steps[n].status,
                    attempts |-> st.steps[n].attempts]]]

\* C25 (as stated): whenever run or retry_step has returned or raised, the
\* repository has a record under the pipeline's id, and it is the live state.
C25_LoadAfterEveryCall ==
    (RunEnded \/ RetryEnded) =>
        /\ exists(storage, PipelineId)
        /\ load(storage, PipelineId) = PipelineId

\* C25 (amended): whenever run or retry_step has returned or raised, except
\* after a step-not-found retry_step on a pipeline that never saved, the
\* repository has a record under the pipeline's id, that record is the live
\* state, and the state handed to the last save of the call has the status,
\* step statuses and attempt counts of the live state.
C25_RoundTrip ==
    ((RunEnded \/ RetryEnded)
        /\ ~(result = "ValueError" /\ ~exists(storage, PipelineId))) =>
        /\ exists(storage, PipelineId)
        /\ load(storage, PipelineId) = PipelineId
        /\ result # "ValueError" =>
              /\ saves # <<>>
              /\ Projection(saves[Len(saves)]) = Projection(state)

C25_Witness ==
    /\ RetryEnded /\ result = "StepError" /\ calls = 1
    /\ load(storage, PipelineId) = PipelineId
    /\ Len(saves) = 2
    /\ Projection(saves[1]) # Projection(state)
    /\ Projection(saves[2]) = Projection(state)
    /\ state.steps[target].status = "failed"

\* C26: with two pipelines saving to one repository in any interleaving, an
\* id has a record exactly when its own pipeline has saved, and the record
\* is that pipeline's own state object; a step of one pipeline (a state
\* change or a save) leaves the other id's record, and the other pipeline,
\* as they were.
C26_SharedRepositoryIsolation ==
    [][\A i \in RepoIds :
          /\ exists(storage', i) <=> pipelines'[i].saved # -1
          /\ exists(storage', i) => load(storage', i) = i
          /\ \A j \in RepoIds \ {i} :
                pipelines'[j] # pipelines[j] =>
                    /\ exists(storage', i) <=> exists(storage, i)
                    /\ load(storage', i) = load(storage, i)
                    /\ pipelines'[i] = pipelines[i]]_vars

C26_Witness ==
    /\ pc = "shared"
    /\ pipelines["p1"] = [version |-> 2, saved |-> 2]
    /\ pipelines["p2"] = [version |-> 3, saved |-> 1]
    /\ load(storage, "p1") = "p1" /\ load(storage, "p2") = "p2"

C29_ContextKeysNeverShrink ==
    [][/\ pc # "idle" =>
              /\ DOMAIN context \subseteq DOMAIN context'
              /\ \A k \in DOMAIN context :
                    context'[k] # context[k] =>
                        /\ k \in DOMAIN outcome'.value
                        /\ context'[k] = outcome'.value[k]
       /\ ~(DOMAIN context \subseteq DOMAIN context') =>
              \/ op'.name = "clear"
              \/ pc = "idle" /\ op'.name = "run" /\ context' = initial']_vars

C29_Witness ==
    /\ RunEnded /\ calls = 2 /\ Len(steps) = 2
    /\ initial = [k \in {"a", "b"} |-> 1]
    /\ outs = <<StepMappings[1], <<>>>>
    /\ context = [k \in {"a", "b"} |-> IF k = "a" THEN 2 ELSE 1]

C31_ConstructedPipeline ==
    /\ pc = "unbuilt" => steps = <<>> /\ state = NoPipelineState
    /\ (op.name = "__init__" /\ result = "ValueError") => pc = "unbuilt"
    /\ pc # "unbuilt" => Len(steps) >= 1
    /\ (op.name = "__init__" /\ result = "returned") =>
          /\ pc = "idle"
          /\ state.status = "pending"
          /\ DOMAIN state.steps = {}
          /\ context = <<>>
          /\ inspector.held =>
                query(viewed(inspector, state), "get_pipeline_status", "") = "pending"

C31_Witness ==
    /\ op.name = "__init__" /\ result = "returned" /\ inspector.held
    /\ Len(steps) = 1 /\ state.status = "pending"

\* C32: when the driver returns, the attempts it reports is the number of
\* invocations it made, it slept once less than that, and the value is a
\* result of the step; with a predicate accepting every error the number of
\* invocations is between 1 and max_attempts + 1.
C32_SuccessOnKthInvocation ==
    (pc = "driver_done" /\ outcome.kind = "returned") =>
        /\ invoked[target] >= 1
        /\ outcome.attempts = invoked[target]
        /\ Len(sleeps) = invoked[target] - 1
        /\ outcome.value \in Outputs(target)
        /\ cfg.retry_on = Errors => invoked[target] <= cfg.max_attempts + 1

C32_Witness ==
    /\ pc = "driver_done" /\ outcome.kind = "returned"
    /\ cfg.retry_on = Errors /\ cfg.max_attempts = MaxRetries
    /\ outcome.attempts = MaxRetries + 1
    /\ Len(sleeps) = MaxRetries
    /\ outcome.value = StepMappings[1]

\* C33: the driver is still at work after a failed attempt only if the
\* predicate accepted that error; when it has raised on an error the
\* predicate rejects, it invoked the step once for the failing attempt and
\* each attempt before, did not sleep after the rejected failure, and raised
\* RetryExhaustedError with attempts = index of the failing attempt + 1
\* (1 when that was the first attempt, whatever max_attempts is).
C33_RejectedErrorStops ==
    /\ (pc = "driver" /\ invoked[target] > 0) => decision.error \in cfg.retry_on
    /\ (pc = "driver_done" /\ outcome.kind = "raised"
            /\ decision.error \notin cfg.retry_on) =>
          /\ decision.attempt = attempt
          /\ invoked[target] = attempt + 1
          /\ Len(sleeps) = attempt
          /\ outcome.attempts = attempt + 1
          /\ outcome.error = RetryExhaustedError(target, attempt + 1)

C33_Witness ==
    /\ pc = "driver_done" /\ outcome.kind = "raised"
    /\ cfg.max_attempts = MaxRetries /\ cfg.retry_on = {"ValueError"}
    /\ decision.error = "TypeError"
    /\ attempt = 1 /\ invoked[target] = 2 /\ outcome.attempts = 2

\* C34: inside run and retry_step the Context is written only by the step
\* that handles a successful return: a raising execute, a failed attempt of
\* the driver, its exhaustion and the failure handlers leave it as it was,
\* and so does the start of retry_step. After a failed run the Context is
\* the initial data overlaid with the outputs of the steps before the
\* failing one; after an exhausted retry_step it is the Context the retry
\* began with.
C34_FailureLeavesContext ==
    [][/\ (/\ pc # "idle"
           /\ ~(pc = "run_exec" /\ pc' = "run_loop")
           /\ ~(pc = "driver_done" /\ outcome.kind = "returned")) =>
              context' = context
       /\ (pc = "idle" /\ op'.name = "retry_step" /\ calls' = calls + 1) =>
              context' = context
       /\ (pc' = "idle" /\ result' = "PipelineExecutionError"
              /\ op'.name = "run") =>
              /\ Len(outs') = cur' - 1
              /\ context' = ContextBefore(cur)'
       /\ (pc' = "idle" /\ result' = "StepError" /\ op'.name = "retry_step") =>
              Some(context') = state'.steps[target'].input_data]_vars

C34_Witness ==
    /\ RetryEnded /\ result = "StepError" /\ calls = 2
    /\ Len(steps) = 2 /\ op.step_name = steps[2]
    /\ invoked[target] = DefaultMaxAttempts + 1
    /\ initial = [k \in {"a", "b"} |-> 1]
    /\ outs = <<StepMappings[1]>>
    /\ context = [k \in {"a", "b"} |-> IF k = "a" THEN 9 ELSE 1]

\* C35: every StepState of the PipelineState is well-formed for its status:
\* COMPLETED has no error and attempts >= 1; FAILED has an error and no
\* output; RUNNING has neither output nor error. No record is in any other
\* status.
C35_StepStateWellFormed ==
    \A n \in DOMAIN state.steps :
        LET ss == state.steps[n]
        IN /\ ss.status \in {"running", "completed", "failed"}
           /\ ss.status = "completed" => ss.error = NoError /\ ss.attempts >= 1
           /\ ss.status = "failed" => ss.error # NoError /\ ss.output_data = None
           /\ ss.status = "running" => ss.error = NoError /\ ss.output_data = None

C35_Witness ==
    /\ op.name = "retry_step" /\ pc = "driver" /\ calls = 2
    /\ target = steps[1] /\ executions[target] = 1
    /\ outs # <<>> /\ outs[1] = StepMappings[1]
    /\ state.status = "failed"
    /\ state.steps[target].status = "running"
    /\ state.steps[target].output_data = None

\* C36: the pipeline error goes with the pipeline status: a FAILED pipeline
\* has an error, a COMPLETED pipeline has none.
C36_ErrorMatchesStatus ==
    /\ state.status = "failed" => state.error # NoError
    /\ state.status = "completed" => state.error = NoError

\* C37: a retry_step call naming a declared step always begins to execute
\* it, whether the step has no StepState, a FAILED one or a COMPLETED one:
\* the step's StepState is created or replaced by a RUNNING one and saved;
\* and the call ends only after at least one invocation of the step, with
\* the step's final StepState saved.
C37_RetryAlwaysExecutes ==
    [][/\ (pc = "idle" /\ op'.name = "retry_step" /\ calls' = calls + 1
              /\ op'.step_name \in Declared) =>
              /\ pc' = "driver"
              /\ target' = op'.step_name
              /\ target' \in DOMAIN state'.steps
              /\ state'.steps[target'].status = "running"
              /\ saves' = <<state'>>
              /\ load(storage', PipelineId) = PipelineId
       /\ (op.name = "retry_step" /\ pc # "idle" /\ pc' = "idle") =>
              /\ invoked'[target] >= 1
              /\ state'.steps[target].status \in {"completed", "failed"}
              /\ saves'[Len(saves')] = state']_vars

C37_Witness ==
    /\ RetryEnded /\ result = "returned" /\ calls = 2
    /\ state.status = "pending"
    /\ Len(steps) = 2 /\ op.step_name = steps[2]
    /\ executions[steps[1]] = 0 /\ executions[steps[2]] = 2
    /\ invoked[steps[2]] = 1 /\ outcome.value = <<>>
    /\ context = StepMappings[2]
    /\ steps[1] \notin DOMAIN state.steps
    /\ state.steps[steps[2]].status = "completed"

\* C38: the driver never invokes the step more than max_attempts + 1 times
\* and run never invokes a declared step more than once; a call that has
\* ended has returned or raised (the driver by returning or by raising
\* RetryExhaustedError), and after run the pipeline is COMPLETED or FAILED;
\* and every call that has begun eventually ends.
C38_Termination ==
    /\ [](pc \in {"driver", "driver_done"} =>
             invoked[target] <= cfg.max_attempts + 1)
    /\ [](op.name = "run" => \A n \in Declared : invoked[n] <= 1)
    /\ [](RunEnded =>
             /\ state.status \in {"completed", "failed"}
             /\ result \in {"PipelineInspector", "PipelineExecutionError"})
    /\ [](RetryEnded =>
             /\ outcome.kind \in {"returned", "raised"}
             /\ outcome.kind = "raised" =>
                   outcome.error = RetryExhaustedError(target, outcome.attempts)
             /\ result \in {"returned", "StepError"})
    /\ (pc # "idle") ~> (pc = "idle")

C38_Witness ==
    /\ pc = "driver_done" /\ outcome.kind = "raised" /\ calls = 2
    /\ cfg.max_attempts = MaxRetries /\ cfg.retry_on = Errors
    /\ invoked[target] = MaxRetries + 1
    /\ state.status = "failed" /\ state.error.step = target

====
